---------------------------- MODULE Spec2Model ----------------------------
(***************************************************************************)
(* USB Micro SD Player Module, revision 24i (src/unnamed/part_000, lines   *)
(* 835-1519): the click decoder of loop(), the command actions, the        *)
(* periodic Short-mode fade and autoplay, and the shuffle of               *)
(* randomNumber().                                                         *)
(*                                                                         *)
(* Time is in milliseconds.  A timer holds the time that remains until its *)
(* deadline (deadline - millis()), cut off at -1 once the deadline has     *)
(* passed: millis() > timer is "timer < 0", millis() < timer is            *)
(* "timer > 0".                                                            *)
(***************************************************************************)
EXTENDS Integers, Sequences, FiniteSets, TLC

\* ------------------------------------------------------------------ bounds
MaxFiles == 2         \* largest file count of the control-loop specifications
MaxSelFiles == 4      \* largest file count shuffled with every random choice
MaxDraws == 6         \* draws of the selector followed in SpecSel
MaxTries == 2         \* play requests the player may need before it reports busy
MaxStored == 2        \* stored settings bytes 0..MaxStored, and 255, at power-on
MaxGest == 10         \* edges of the input line remembered per press sequence
MaxSeqs == 1          \* press sequences per run
MaxEnds == 1          \* tracks that play to their end per run
MaxIdle == 2          \* times the loop is left waiting in Idle before the first press
MaxNoise == 1         \* presses followed while the decoder settles or waits for release
MaxPlays == 3         \* random selections followed in SpecPlay
MaxPlayFiles == 3     \* largest file count of SpecPlay
MaxCmdFiles == 3      \* largest file count of SpecCmd
MaxCmds == 2          \* press sequences per run of SpecCmd
MaxWaits == 1         \* waits for a deadline per run of SpecCmd
MaxBoots == 1         \* power cycles per run of SpecCmd

\* ------------------------------------------------------- program constants
N == 128
Full == 0
Short == 1
Book == 2
fileAddr == 1
modeAddr == 2
volAddr == 3
intAddr == 4
cntAddr == 5
modeCount == 3
volCount == 3
intvlCount == 4
cntCount == 4
playTime == 30000
CmdTimeOut == 500
sleepTimeOut == 5000
debounce == 20
modeReset == 0
volReset == 1
intvlReset == 3
cntReset == 0
Idle == 0
WaitRelease == 10
Settle == 99

ON == "ON"
OFF == "OFF"
Byte == 0..255
volArray == <<10, 18, 25>>
intArray == <<5, 10, 30, 0>>
cntArray == <<1, 2, 3, 0>>

VARIABLES
  state, timer1, timer2, timer3,        \* decoder state and the three timers
  fileCount, file, prevFile, fileStep, playCount,
  mode, volume, interval, count, paused,
  eeprom, led, volSent,
  randomTable, pos, prev, selInit,      \* the statics of randomNumber
  button, player, held,                 \* input line, state of the player, ms since the last edge
  pc, blocked,                          \* position of the program, ms of busy-wait left
  cmds, gest,                           \* commands run and input seen since the last press at Idle
  plays, ev,                            \* play requests and periodic event of the latest cycle
  blinks, wasted,                       \* LED blinks and stored bytes rewritten unchanged, latest cycle
  ops,                                  \* commands sent to the player in the latest cycle
  nauto,                                \* automatic plays since boot or the last press at Idle
  drawn, oob,                           \* draws of the selector, table indexed out of bounds
  nseq, nend, nnoise, nidle,            \* press sequences opened, tracks run out, presses after decoding, waits in Idle
  snap,                                 \* mode, volume, interval, count, file when the press sequence opened
  nboot                                 \* power cycles

progVars == <<state, timer1, timer2, timer3, fileCount, file, prevFile, fileStep,
              playCount, mode, volume, interval, count, paused, eeprom, led, volSent>>
selVars == <<randomTable, pos, prev, selInit>>
envVars == <<button, player, held>>
histVars == <<cmds, gest, plays, ev, blinks, wasted, ops, nauto, drawn, oob, nseq, nend, nnoise,
              nidle, snap, nboot>>
vars == <<progVars, selVars, envVars, pc, blocked, histVars>>

\* --------------------------------------------------------- randomNumber()
\* The values random(i + 1) may return for i = 1..n-1: every choice for a
\* small table, the two extreme choices for a large one.
ShufflePicks(n) ==
  IF n < 2 THEN {<<>>}
  ELSE IF n <= MaxSelFiles
  THEN {js \in [1..(n - 1) -> 0..(n - 1)] : \A i \in 1..(n - 1) : js[i] <= i}
  ELSE {[i \in 1..(n - 1) |-> i], [i \in 1..(n - 1) |-> 0]}

\* What a read past the end of randomTable may return.
Garbage == {0, 1, 255}

Swap(t, i, j) == [t EXCEPT ![i] = t[j], ![j] = t[i]]

\* for (byte i = n - 1; i > 0; i--) { j = random(i + 1); swap }
RECURSIVE Shuffle(_, _, _)
Shuffle(t, i, js) ==
  IF i > 0 THEN Shuffle(Swap(t, i, js[i]), i - 1, js) ELSE t

\* for (byte i = 0; i < n; i++) randomTable[i] = i;
InitTable(t, n) == [k \in 0..(N - 1) |-> IF k < n THEN k ELSE t[k]]

Clamp(n) == IF n >= N THEN N - 1 ELSE n

\* After a regeneration: skip the first entry when it equals the previous draw.
SkipRepeat(n, first, pv) == IF n > 1 /\ first = pv THEN 1 ELSE 0

\* One call randomNumber(n0).  s: the statics [table, pos, prev, init];
\* js: the values random() returns should the table be regenerated;
\* g: what a read past the end of the table returns.
\* Result: the statics after the call, the value returned, and whether the
\* call indexed randomTable outside 0..N-1.
RandomNumber(s, n0, js, g) ==
  LET p0 == IF s.init THEN s.pos ELSE n0
      v0 == IF s.init THEN s.prev ELSE n0
      n == Clamp(n0)
      regen == (p0 = n) /\ n > 0
      t1 == IF regen THEN Shuffle(InitTable(s.table, n), n - 1, js) ELSE s.table
      p1 == IF regen THEN SkipRepeat(n, t1[0], v0) ELSE p0
      bad == p1 >= N \/ (p0 = n /\ n = 0)
      r == IF p1 >= N THEN g ELSE t1[p1]
  IN [sel |-> [table |-> t1, pos |-> (p1 + 1) % 256, prev |-> r, init |-> TRUE],
      ret |-> r, oob |-> bad]

\* The statics of randomNumber before the first call: the table is zeroed
\* static storage, pos and prev take the argument of the first call.
FreshSel == [table |-> [k \in 0..(N - 1) |-> 0], pos |-> 0, prev |-> 0, init |-> FALSE]

\* ------------------------------------------------------------ helpers
ByteOf(x) == x % 256
BusyLine(p) == IF p = "play" THEN ON ELSE OFF

\* How long a human-paced step of the input lasts, and from when on a
\* segment of the input counts as long without any doubt.
Tap == 5 * debounce
HeldMax == CmdTimeOut + debounce + 1

\* byte fadeTime = 3000 keeps the low eight bits.
fadeTime == ByteOf(3000)

\* fadeVolumeDown(maxVolume): slice = (fadeTime / maxVolume) * 10, one wait
\* of slice per level maxVolume..0, and 100 ms at the end.
FadeSlice(maxVolume) == (fadeTime \div maxVolume) * 10
FadeWait(maxVolume) == (maxVolume + 1) * FadeSlice(maxVolume) + 100

\* displayStatus(n): 500 ms, n + 1 blinks of 100 + 200 ms, 500 ms.
StatusWait(n) == 500 + (n + 1) * 300 + 500

\* The files the player can play: those on the card, the odd ones only when
\* the probe of setup() found the even ones unavailable.
Playable(s, f) == f \in 1..s.fileCount /\ (s.fileStep = 1 \/ f % 2 = 1)

\* wait_ms(T) inside a control cycle.
Wait(s, T) == [s EXCEPT !.w = @ + T]
\* millis() + T, read w ms into the cycle.
Arm(s, T) == s.w + T
\* millis() > timer, read w ms into the cycle.
Expired(s, t) == t < s.w

\* EEPROM.update(a, v): the cell holds v afterwards, and is written only
\* when it held another value.
Store(s, a, v) == [s EXCEPT !.eeprom[a] = v]

\* EEPROM.write(a, v): the cell is written whatever it held.
Write(s, a, v) ==
  [s EXCEPT !.eeprom[a] = v,
            !.wasted = IF s.eeprom[a] = v THEN @ \cup {a} ELSE @]

\* A command sent to the player.
Sent(s, c, x) == [s EXCEPT !.ops = Append(@, <<c, x>>)]

\* DFPlayer.play(f) that the player does not act on.
Request(s, f) == [Sent(s, "play", f) EXCEPT !.plays = Append(@, f)]

\* DFPlayer.play(f).
PlayerPlay(s, f) ==
  [Request(s, f) EXCEPT !.player = IF Playable(s, f) THEN "play" ELSE @]

\* DFPlayer.volume(v).
SetVolume(s, v) == [Sent(s, "volume", v) EXCEPT !.volSent = v]

\* PlayRetry that returns after the first request.
PlayRetry_NoCheck(s, tries) ==
  IF tries > 1 THEN Wait(Request(s, s.file), 100) ELSE Wait(PlayerPlay(s, s.file), 100)

\* do { DFPlayer.play(file); wait_ms(100); } while (busy == OFF);
\* a file the player cannot play keeps the loop spinning for ever.
RECURSIVE PlayRetry(_, _)
PlayRetry(s, tries) ==
  IF ~Playable(s, s.file) THEN [PlayerPlay(s, s.file) EXCEPT !.pc = "hung"]
  ELSE IF tries > 1
  THEN PlayRetry(Wait(Request(s, s.file), 100), tries - 1)
  ELSE Wait(PlayerPlay(s, s.file), 100)

\* OddAdjust that leaves an even file as drawn.
OddAdjust_Off(step, f) == f

\* if (fileStep == 2 and file % 2 == 0) file++;
OddAdjust(step, f) == IF step = 2 /\ f % 2 = 0 THEN ByteOf(f + 1) ELSE f

\* The draw loop of playRandom: do { file = randomNumber(fileCount) + 1; ... }
\* while (file == prevFile or file > fileCount).  rs: the shuffles the
\* regenerations of this call use, in order; fuel: draws left.  A file that
\* can be accepted is drawn within two regenerations (each new table holds
\* every value, and only an entry equal to the last draw is skipped), so a
\* loop that needs a third, or more than three tables' worth of draws, is
\* endless.
NeedsTable(s) ==
  /\ (IF s.sel.init THEN s.sel.pos ELSE s.fileCount) = Clamp(s.fileCount)
  /\ Clamp(s.fileCount) > 0

\* file = randomNumber(fileCount) + 1; if (fileStep == 2 ...) file++;
Took(s, r) ==
  [s EXCEPT !.sel = r.sel, !.file = OddAdjust(s.fileStep, ByteOf(r.ret + 1)),
            !.oob = (@ \/ r.oob)]

RECURSIVE DrawLoop(_, _, _, _)
RECURSIVE Redraw(_, _, _, _, _)
DrawLoop(s, rs, g, fuel) ==
  IF fuel = 0 \/ (NeedsTable(s) /\ rs = <<>>) THEN [s EXCEPT !.pc = "hung"]
  ELSE Redraw(s, Took(s, RandomNumber(s.sel, s.fileCount,
                                      IF rs = <<>> THEN <<>> ELSE Head(rs), g)),
              rs, g, fuel)

\* while (file == prevFile or file > fileCount)
Redraw(s, s1, rs, g, fuel) ==
  IF s1.file = s.prevFile \/ s1.file > s.fileCount
  THEN DrawLoop(s1, IF NeedsTable(s) THEN Tail(rs) ELSE rs, g, fuel - 1)
  ELSE s1

DrawFuel(n) == 3 * n + 2

\* The play loop of playRandom, entered unless the draw loop is endless.
PlayDrawn(s, tries) == IF s.pc = "hung" THEN s ELSE PlayRetry(s, tries)

PlayRandom(s, in) ==
  PlayDrawn(DrawLoop([Wait(s, 100) EXCEPT !.prevFile = s.file],
                     in.rs, in.g, DrawFuel(s.fileCount)), in.tries)

PlayNext(s, in) ==
  LET f == ByteOf(s.file + s.fileStep)
      s1 == [Wait(s, 100) EXCEPT !.file = IF f > s.fileCount THEN 1 ELSE f]
  IN PlayRetry(s1, in.tries)

PlayPrev(s, in) ==
  LET s1 == [Wait(s, 100) EXCEPT
               !.file = IF s.file = 1 THEN ByteOf(s.fileCount - s.fileStep + 1)
                        ELSE ByteOf(s.file - s.fileStep)]
  IN PlayRetry(s1, in.tries)

\* volArray[volume], intArray[interval], cntArray[count] of the 0-based C arrays.
VolOf(v) == volArray[v + 1]
IntOf(i) == intArray[i + 1]
CntOf(c) == cntArray[c + 1]

\* DFPlayer.stop(), DFPlayer.pause(), DFPlayer.start().
PlayerStop(s) == [Sent(s, "stop", 0) EXCEPT !.player = "idle"]
PlayerPause(s) == [Sent(s, "pause", 0) EXCEPT !.player = IF @ = "play" THEN "pause" ELSE @]
PlayerStart(s) == [Sent(s, "start", 0) EXCEPT !.player = IF @ = "pause" THEN "play" ELSE @]

\* for (int vol = maxVolume; vol >= 0; vol--) DFPlayer.volume(vol);
FadeLevels(maxVolume) == [i \in 1..(maxVolume + 1) |-> <<"volume", maxVolume + 1 - i>>]

\* fadeVolumeDown(volArray[volume]): the volume is stepped down to 0.
FadeVolumeDown(s) ==
  [Wait(s, FadeWait(VolOf(s.volume))) EXCEPT !.volSent = 0,
                                             !.ops = @ \o FadeLevels(VolOf(s.volume))]

\* displayStatus that blinks n times.
DisplayStatus_OneLess(s, n) == [Wait(s, StatusWait(n)) EXCEPT !.led = 0, !.blinks = @ + n]

\* displayStatus(n): n + 1 blinks, and the LED is left off.
DisplayStatus(s, n) == [Wait(s, StatusWait(n)) EXCEPT !.led = 0, !.blinks = @ + n + 1]

\* A command action has been entered.
Did(s, c) == [s EXCEPT !.cmds = Append(@, c)]

\* wait_ms(debounce); timer1 = millis() + CmdTimeOut; state = next;
Advance(s, next) ==
  LET s1 == Wait(s, debounce)
  IN [s1 EXCEPT !.timer1 = Arm(s1, CmdTimeOut), !.state = next]

\* ------------------------------------------------------ switch (state)
Case0(s) ==
  IF s.button = ON THEN [Advance(s, 1) EXCEPT !.led = 0] ELSE s

\* CmdL1 that leaves the volume at 0 after the fade.
CmdL1_NoRestore(s) ==
  LET s1 == IF BusyLine(s.player) = ON
            THEN LET a == PlayerPause(FadeVolumeDown(s))
                     b == Wait(a, 100)
                 IN [b EXCEPT !.paused = TRUE]
            ELSE s
  IN Did([s1 EXCEPT !.timer1 = Arm(s1, sleepTimeOut), !.state = WaitRelease], "L1")

\* 1st press: on timeout the long press "-", stop and fade.
CmdL1(s) ==
  LET s1 == IF BusyLine(s.player) = ON
            THEN LET a == PlayerPause(FadeVolumeDown(s))
                     b == Wait(a, 100)
                 IN [SetVolume(b, VolOf(s.volume)) EXCEPT !.paused = TRUE]
            ELSE s
  IN Did([s1 EXCEPT !.timer1 = Arm(s1, sleepTimeOut), !.state = WaitRelease], "L1")

Case1(s) ==
  IF Expired(s, s.timer1) THEN CmdL1(s)
  ELSE IF s.button = OFF THEN Advance(s, 2) ELSE s

\* SaveFile that stores nothing.
SaveFile_Never(s) == s

\* EEPROM.update(fileAddr, file) once the play function has returned.
SaveFile(s) == IF s.pc = "hung" THEN s ELSE Store(s, fileAddr, s.file)

\* The end of the command S1, reached when the play function returns.
EndS1(s) ==
  IF s.pc = "hung" THEN Did(s, "S1")
  ELSE Did([s EXCEPT !.timer2 = Arm(s, playTime), !.playCount = 1,
                     !.paused = FALSE, !.state = Settle], "S1")

\* DFPlayer.stop(); wait_ms(100); then playNext() or playRandom().
PlayOther(s, in) ==
  IF s.mode = Book THEN SaveFile(PlayNext(s, in)) ELSE PlayRandom(s, in)

\* CmdS1 that resumes whenever paused is set, after the reset too.
CmdS1_ResumeAlways(s, in) ==
  EndS1(IF s.paused THEN PlayerStart(s)
        ELSE PlayOther(Wait(PlayerStop(s), 100), in))

\* 1st release: on timeout ".", play the next song.
CmdS1(s, in) ==
  EndS1(IF s.paused /\ s.file > 0 THEN PlayerStart(s)
        ELSE PlayOther(Wait(PlayerStop(s), 100), in))

Case2(s, in) ==
  IF Expired(s, s.timer1) THEN CmdS1(s, in)
  ELSE IF s.button = ON THEN Advance(s, 3) ELSE s

\* CmdL2 with the mode advanced and not wrapped to the number of modes.
CmdL2_NoWrap(s) ==
  LET m == ByteOf(s.mode + 1)
      s1 == DisplayStatus(Store([s EXCEPT !.mode = m], modeAddr, m), m)
      s2 == IF m = Book
            THEN LET a == PlayerPlay(SetVolume([s1 EXCEPT !.file = 1], 0), 1)
                     b == Wait(PlayerPause(a), 100)
                     c == Store(SetVolume(b, VolOf(s.volume)), fileAddr, 1)
                 IN [c EXCEPT !.paused = TRUE]
            ELSE s1
  IN Did([s2 EXCEPT !.state = WaitRelease], "L2")

\* 2nd press: on timeout ".-", change the play mode.
CmdL2(s) ==
  LET m == ByteOf(s.mode + 1) % modeCount
      s1 == DisplayStatus(Store([s EXCEPT !.mode = m], modeAddr, m), m)
      s2 == IF m = Book
            THEN LET a == PlayerPlay(SetVolume([s1 EXCEPT !.file = 1], 0), 1)
                     b == Wait(PlayerPause(a), 100)
                     c == Store(SetVolume(b, VolOf(s.volume)), fileAddr, 1)
                 IN [c EXCEPT !.paused = TRUE]
            ELSE s1
  IN Did([s2 EXCEPT !.state = WaitRelease], "L2")

Case3(s) ==
  IF Expired(s, s.timer1) THEN CmdL2(s)
  ELSE IF s.button = OFF THEN Advance(s, 4) ELSE s

\* The end of the command S2.
EndS2(s) ==
  IF s.pc = "hung" THEN Did(s, "S2")
  ELSE Did([s EXCEPT !.playCount = 1, !.paused = FALSE, !.state = Settle], "S2")

\* temp = file; file = prevFile; prevFile = temp; DFPlayer.play(file);
\* timer2 = millis() + playTime.
Replay(s) ==
  [PlayerPlay([s EXCEPT !.file = s.prevFile, !.prevFile = s.file], s.prevFile)
     EXCEPT !.timer2 = Arm(s, playTime)]

\* 2nd release: on timeout "..", play the previous song.
CmdS2(s, in) ==
  EndS2(IF s.mode = Book THEN SaveFile(PlayPrev(Wait(PlayerStop(s), 100), in))
        ELSE Replay(s))

Case4(s, in) ==
  IF Expired(s, s.timer1) THEN CmdS2(s, in)
  ELSE IF s.button = ON THEN Advance(s, 5) ELSE s

\* CmdL3 that shows the interval it replaces.
CmdL3_ShowsOld(s) ==
  LET i == ByteOf(s.interval + 1) % intvlCount
      s1 == DisplayStatus(Store([s EXCEPT !.interval = i], intAddr, i), s.interval)
  IN Did([s1 EXCEPT !.paused = FALSE, !.state = WaitRelease], "L3")

\* 3rd press: on timeout "..-", change the interval.
CmdL3(s) ==
  LET i == ByteOf(s.interval + 1) % intvlCount
      s1 == DisplayStatus(Store([s EXCEPT !.interval = i], intAddr, i), i)
  IN Did([s1 EXCEPT !.paused = FALSE, !.state = WaitRelease], "L3")

Case5(s) ==
  IF Expired(s, s.timer1) THEN CmdL3(s)
  ELSE IF s.button = OFF THEN Advance(s, 6) ELSE s

\* CmdS3 that does not store the volume.
CmdS3_NoStore(s) ==
  LET v == ByteOf(s.volume + 1) % volCount
      s1 == DisplayStatus([s EXCEPT !.volume = v], v)
  IN Did([SetVolume(s1, VolOf(v)) EXCEPT !.state = Settle], "S3")

\* 3rd release: on timeout "...", change the volume.
CmdS3(s) ==
  LET v == ByteOf(s.volume + 1) % volCount
      s1 == DisplayStatus(Store([s EXCEPT !.volume = v], volAddr, v), v)
  IN Did([SetVolume(s1, VolOf(v)) EXCEPT !.state = Settle], "S3")

Case6(s) ==
  IF Expired(s, s.timer1) THEN CmdS3(s)
  ELSE IF s.button = ON THEN Advance(s, 7) ELSE s

\* 4th press: on timeout "...-", change the count.
CmdL4(s) ==
  LET c == ByteOf(s.count + 1) % cntCount
      s1 == DisplayStatus(Store([s EXCEPT !.count = c, !.playCount = 0], cntAddr, c), c)
  IN Did([s1 EXCEPT !.state = WaitRelease], "L4")

Case7(s) ==
  IF Expired(s, s.timer1) THEN CmdL4(s)
  ELSE IF s.button = OFF THEN Advance(s, 8) ELSE s

\* CmdS4 that leaves the play counter as it is.
CmdS4_KeepsPlayCount(s) ==
  LET s1 == [s EXCEPT !.file = 0, !.mode = modeReset, !.interval = intvlReset,
                      !.volume = volReset, !.count = cntReset]
      s2 == Write(Write(Write(Write(Write(s1, fileAddr, 0), modeAddr, modeReset),
                  volAddr, volReset), intAddr, intvlReset), cntAddr, cntReset)
      s3 == Wait(PlayerStop(DisplayStatus(s2, 0)), 100)
  IN Did([SetVolume(s3, VolOf(volReset)) EXCEPT !.paused = TRUE, !.state = Settle], "S4")

\* CmdS4 that leaves the volume setting as it is.
CmdS4_KeepVolume(s) ==
  LET s1 == [s EXCEPT !.file = 0, !.mode = modeReset, !.interval = intvlReset,
                      !.count = cntReset, !.playCount = 0]
      s2 == Write(Write(Write(Write(Write(s1, fileAddr, 0), modeAddr, modeReset),
                  volAddr, s.volume), intAddr, intvlReset), cntAddr, cntReset)
      s3 == Wait(PlayerStop(DisplayStatus(s2, 0)), 100)
  IN Did([SetVolume(s3, VolOf(s.volume)) EXCEPT !.paused = TRUE, !.state = Settle], "S4")

\* 4th release: on timeout "....", reset the user settings.
CmdS4(s) ==
  LET s1 == [s EXCEPT !.file = 0, !.mode = modeReset, !.interval = intvlReset,
                      !.volume = volReset, !.count = cntReset, !.playCount = 0]
      s2 == Write(Write(Write(Write(Write(s1, fileAddr, 0), modeAddr, modeReset),
                  volAddr, volReset), intAddr, intvlReset), cntAddr, cntReset)
      s3 == Wait(PlayerStop(DisplayStatus(s2, 0)), 100)
  IN Did([SetVolume(s3, VolOf(volReset)) EXCEPT !.paused = TRUE, !.state = Settle], "S4")

\* A 5th press: wait_ms(debounce); state = 10, timer1 left as it is.
Case8(s) ==
  IF Expired(s, s.timer1) THEN CmdS4(s)
  ELSE IF s.button = ON THEN [Wait(s, debounce) EXCEPT !.state = WaitRelease] ELSE s

\* Case10 that resets the play counter and paused on every release.
Case10_AlwaysClears(s) ==
  IF s.button = OFF
  THEN LET s1 == Wait(s, debounce)
           s2 == [s1 EXCEPT !.playCount = 0, !.paused = FALSE]
       IN [s2 EXCEPT !.timer3 = Arm(s2, IntOf(s.interval) * 1000), !.state = Settle]
  ELSE s

\* Wait for the release after a long press.
Case10(s) ==
  IF s.button = OFF
  THEN LET s1 == Wait(s, debounce)
           s2 == IF Expired(s1, s1.timer1)
                 THEN [s1 EXCEPT !.playCount = 0, !.paused = FALSE] ELSE s1
       IN [s2 EXCEPT !.timer3 = Arm(s2, IntOf(s.interval) * 1000), !.state = Settle]
  ELSE s

\* case 99 up to its do-while: wait_ms(100); timer1 = millis() + CmdTimeOut.
Case99(s) ==
  LET s1 == Wait(s, 100)
  IN [s1 EXCEPT !.timer1 = Arm(s1, CmdTimeOut), !.pc = "settle"]

Switch(s, in) ==
  CASE s.state = 0 -> Case0(s)
    [] s.state = 1 -> Case1(s)
    [] s.state = 2 -> Case2(s, in)
    [] s.state = 3 -> Case3(s)
    [] s.state = 4 -> Case4(s, in)
    [] s.state = 5 -> Case5(s)
    [] s.state = 6 -> Case6(s)
    [] s.state = 7 -> Case7(s)
    [] s.state = 8 -> Case8(s)
    [] s.state = WaitRelease -> Case10(s)
    [] s.state = Settle -> Case99(s)
    [] OTHER -> s

\* ------------------------------------- the periodic part of loop()
\* Rearm3 that leaves timer3 as it is.
Rearm3_Never(s) == s

\* Reset timer3 if a song is playing.
Rearm3(s) ==
  IF BusyLine(s.player) = ON
  THEN [s EXCEPT !.timer3 = Arm(s, IntOf(s.interval) * 1000)] ELSE s

\* ShortFade that does not send the configured volume after the stop.
ShortFade_NoRestore(s) ==
  IF s.mode = Short /\ BusyLine(s.player) = ON /\ Expired(s, s.timer2)
  THEN LET a == Wait(PlayerStop(FadeVolumeDown([s EXCEPT !.led = 0])), 100)
           b == Wait(a, 100)
       IN [b EXCEPT !.paused = FALSE, !.led = 1, !.ev = "fade"]
  ELSE s

\* Fade the song after the time limit in Short mode.
ShortFade(s) ==
  IF s.mode = Short /\ BusyLine(s.player) = ON /\ Expired(s, s.timer2)
  THEN LET a == Wait(PlayerStop(FadeVolumeDown([s EXCEPT !.led = 0])), 100)
           b == Wait(SetVolume(a, VolOf(s.volume)), 100)
       IN [b EXCEPT !.paused = FALSE, !.led = 1, !.ev = "fade"]
  ELSE s

\* AutoplayDue that does not look at the mode.
AutoplayDue_InBook(s) ==
  /\ ~s.paused /\ IntOf(s.interval) # 0
  /\ s.button = OFF /\ s.state = 0
  /\ BusyLine(s.player) = OFF /\ Expired(s, s.timer3)
  /\ (CntOf(s.count) = 0 \/ s.playCount < CntOf(s.count))

\* AutoplayDue that does not look at the play counter.
AutoplayDue_NoCap(s) ==
  /\ s.mode # Book /\ ~s.paused /\ IntOf(s.interval) # 0
  /\ s.button = OFF /\ s.state = 0
  /\ BusyLine(s.player) = OFF /\ Expired(s, s.timer3)

AutoplayDue(s) ==
  /\ s.mode # Book /\ ~s.paused /\ IntOf(s.interval) # 0
  /\ s.button = OFF /\ s.state = 0
  /\ BusyLine(s.player) = OFF /\ Expired(s, s.timer3)
  /\ (CntOf(s.count) = 0 \/ s.playCount < CntOf(s.count))

\* playCount++; timer2 = millis() + playTime; paused = false.
Autoplayed(s) ==
  IF s.pc = "hung" THEN s
  ELSE [s EXCEPT !.playCount = ByteOf(@ + 1), !.timer2 = Arm(s, playTime),
                 !.paused = FALSE, !.ev = "auto"]

Autoplay(s, in) ==
  IF AutoplayDue(s) THEN Autoplayed(PlayRandom(s, in)) ELSE s

Periodic(s, in) == Autoplay(ShortFade(Rearm3(s)), in)

\* SettlePoll that leaves as soon as the input is inactive.
SettlePoll_NoTimeout(s, in) ==
  IF s.button = ON
  THEN LET s1 == Wait(s, debounce) IN [s1 EXCEPT !.timer1 = Arm(s1, CmdTimeOut)]
  ELSE Periodic([s EXCEPT !.led = 1, !.state = Idle, !.pc = "loop"], in)

\* SettlePoll that leaves the status LED as it is.
SettlePoll_NoLed(s, in) ==
  IF s.button = ON
  THEN LET s1 == Wait(s, debounce) IN [s1 EXCEPT !.timer1 = Arm(s1, CmdTimeOut)]
  ELSE IF s.timer1 > 0 THEN s
  ELSE Periodic([s EXCEPT !.state = Idle, !.pc = "loop"], in)

\* The do-while of case 99, then the rest of that control cycle.
SettlePoll(s, in) ==
  IF s.button = ON
  THEN LET s1 == Wait(s, debounce) IN [s1 EXCEPT !.timer1 = Arm(s1, CmdTimeOut)]
  ELSE IF s.timer1 > 0 THEN s
  ELSE Periodic([s EXCEPT !.led = 1, !.state = Idle, !.pc = "loop"], in)

\* The periodic part, not reached by a pass that never returns.
Rest(s, in) == IF s.pc # "loop" THEN s ELSE Periodic(s, in)

\* One pass of loop(), up to the point where it next blocks for input.
LoopStep(s, in) ==
  IF s.pc = "settle" THEN SettlePoll(s, in) ELSE Rest(Switch(s, in), in)

Sel == [table |-> randomTable, pos |-> pos, prev |-> prev, init |-> selInit]


\* ------------------------------------------------ selector on its own
SelInit ==
  /\ fileCount \in (1..MaxSelFiles) \cup {N}
  /\ randomTable = FreshSel.table /\ pos = FreshSel.pos /\ prev = FreshSel.prev
  /\ selInit = FreshSel.init
  /\ state = Settle /\ timer1 = 0 /\ timer2 = 0 /\ timer3 = 0
  /\ file = 0 /\ prevFile = 0 /\ fileStep = 1 /\ playCount = 0
  /\ mode = 0 /\ volume = 0 /\ interval = 0 /\ count = 0 /\ paused = FALSE
  /\ eeprom = [a \in 1..5 |-> 255] /\ led = 1 /\ volSent = 0
  /\ button = OFF /\ player = "idle" /\ held = 0
  /\ pc = "sel" /\ blocked = 0
  /\ cmds = <<>> /\ gest = <<>> /\ plays = <<>> /\ ev = "none" /\ drawn = <<>> /\ oob = FALSE
  /\ blinks = 0 /\ wasted = {} /\ ops = <<>> /\ nauto = 0
  /\ nseq = 0 /\ nend = 0 /\ nnoise = 0 /\ nidle = 0 /\ snap = <<>> /\ nboot = 0

\* file = randomNumber(fileCount) + 1, as playRandom draws (line 1401).
Draw ==
  /\ pc = "sel"
  /\ Len(drawn) < MaxDraws
  /\ \E js \in ShufflePicks(Clamp(fileCount)), g \in Garbage :
       LET r == RandomNumber(Sel, fileCount, js, g)
       IN /\ randomTable' = r.sel.table
          /\ pos' = r.sel.pos
          /\ prev' = r.sel.prev
          /\ selInit' = TRUE
          /\ drawn' = Append(drawn, r.ret + 1)
          /\ oob' = (oob \/ r.oob)
  /\ UNCHANGED <<progVars, envVars, pc, blocked, cmds, gest, plays, ev, blinks, wasted, ops,
                 nauto, nseq, nend, nnoise, nidle, snap, nboot>>

SelNext == Draw
SpecSel == SelInit /\ [][SelNext]_vars

\* --------------------------------------------------- the control loop
\* The program's variables at the start of a control cycle.
Cur ==
  [state |-> state, timer1 |-> timer1, timer2 |-> timer2, timer3 |-> timer3,
   fileCount |-> fileCount, file |-> file, prevFile |-> prevFile,
   fileStep |-> fileStep, playCount |-> playCount, mode |-> mode,
   volume |-> volume, interval |-> interval, count |-> count, paused |-> paused,
   eeprom |-> eeprom, led |-> led, volSent |-> volSent, sel |-> Sel,
   button |-> button, player |-> player, pc |-> pc, w |-> 0,
   cmds |-> cmds, plays |-> <<>>, ev |-> "none", blinks |-> 0, wasted |-> {},
   ops |-> <<>>, oob |-> oob]

\* What a cycle may be handed: the shuffles of up to two regenerations, the
\* byte a read past the table returns, the play requests until busy.
NoInput == [rs |-> <<>>, g |-> 0, tries |-> 1]
Inputs(n) ==
  [rs : ShufflePicks(Clamp(n)) \X ShufflePicks(Clamp(n)),
   g : IF n >= N THEN Garbage ELSE {0},
   tries : 1..MaxTries]

\* The do-while of case 99 with the input active: every pass waits out the
\* debounce and arms timer1 again, so the timer stays a full command
\* timeout away for as long as the input stays active.
Polling == pc = "settle" /\ button = ON /\ blocked = 0 /\ timer1 = CmdTimeOut

\* A cycle that changes nothing: the loop spins until time or an input moves.
Quiescent == Polling \/ LoopStep(Cur, NoInput) = Cur

\* A cycle that ended this way reached the player or the selector.
UsesInput(r) == r.pc = "hung" \/ r.plays # <<>>

Becomes(r) ==
  /\ state' = r.state /\ timer1' = r.timer1 /\ timer2' = r.timer2
  /\ timer3' = r.timer3 /\ fileCount' = r.fileCount /\ file' = r.file
  /\ prevFile' = r.prevFile /\ fileStep' = r.fileStep
  /\ playCount' = r.playCount /\ mode' = r.mode /\ volume' = r.volume
  /\ interval' = r.interval /\ count' = r.count /\ paused' = r.paused
  /\ eeprom' = r.eeprom /\ led' = r.led /\ volSent' = r.volSent
  /\ randomTable' = r.sel.table /\ pos' = r.sel.pos /\ prev' = r.sel.prev
  /\ selInit' = r.sel.init
  /\ player' = r.player /\ pc' = r.pc /\ blocked' = r.w
  /\ cmds' = r.cmds /\ plays' = r.plays /\ ev' = r.ev /\ oob' = r.oob
  /\ blinks' = r.blinks /\ wasted' = r.wasted /\ ops' = r.ops
  /\ nauto' = (IF r.ev = "auto" THEN nauto + 1 ELSE nauto)

\* A cycle is run when it changes something; r is how it ends when the
\* player answers at once and nothing random is drawn.
Cycle(r) ==
  /\ ~Polling /\ r # Cur
  /\ \E in \in (IF UsesInput(r) THEN Inputs(fileCount) ELSE {NoInput}) :
       Becomes(LoopStep(Cur, in))

\* loop(): one control cycle.
Loop ==
  /\ pc \in {"loop", "settle"} /\ blocked = 0
  /\ Cycle(LoopStep(Cur, NoInput))
  /\ UNCHANGED <<button, held, gest, drawn, nseq, nend, nnoise, nidle, snap, nboot>>

\* ------------------------------------------------------- environment
Cut(t) == IF t < 0 THEN -1 ELSE t
Grow(h, d) == IF h + d > HeldMax THEN HeldMax ELSE h + d

\* How a finished segment of the input (a press or a gap) counts: short when
\* it ended before the command timeout, long when it outlasted the timeout
\* and the debounce wait before it.
Class(h) == IF h < CmdTimeOut THEN "s" ELSE IF h > CmdTimeOut + debounce THEN "l" ELSE "m"

Running == pc \in {"loop", "settle", "hung"}

\* The press sequences followed have all been decoded.
\* and the input has since been quiet for a command timeout.
Over ==
  /\ nseq = MaxSeqs /\ pc = "loop" /\ state = Idle /\ blocked = 0
  /\ button = OFF /\ held >= CmdTimeOut

\* The input line goes active.  A press that arrives while the decoder is
\* Idle opens a new press sequence.
Press ==
  /\ Running /\ button = OFF /\ held >= Tap
  /\ button' = ON /\ held' = 0
  /\ IF pc = "loop" /\ state = Idle
     THEN /\ nseq < MaxSeqs
          /\ gest' = <<IF blocked = 0 THEN "polled" ELSE "blocked">>
          /\ cmds' = <<>>
          /\ nseq' = nseq + 1 /\ nnoise' = 0 /\ nauto' = 0
          /\ snap' = <<mode, volume, interval, count, file>>
     ELSE /\ Len(gest) < MaxGest
          /\ state \in {WaitRelease, Settle} => nnoise < MaxNoise
          /\ gest' = Append(gest, Class(held))
          /\ nnoise' = (IF state \in {WaitRelease, Settle} THEN nnoise + 1 ELSE nnoise)
          /\ UNCHANGED <<cmds, nseq, snap, nauto>>
  /\ UNCHANGED <<progVars, selVars, player, pc, blocked, plays, ev, blinks, wasted, ops, drawn,
                 oob, nend, nidle, nboot>>

\* The input line goes inactive.
Release ==
  /\ Running /\ button = ON /\ held >= Tap
  /\ button' = OFF /\ held' = 0
  /\ gest' = (IF Len(gest) < MaxGest + 1 THEN Append(gest, Class(held)) ELSE gest)
  /\ UNCHANGED <<progVars, selVars, player, pc, blocked, cmds, plays, ev, blinks, wasted, ops,
                 nauto, drawn, oob, nseq, nend, nnoise, nidle, snap, nboot>>

\* The track that is playing ends.
TrackEnds ==
  /\ Running /\ ~Over /\ player = "play" /\ nend < MaxEnds
  /\ player' = "idle" /\ nend' = nend + 1
  /\ UNCHANGED <<progVars, selVars, button, held, pc, blocked, cmds, gest, plays, ev,
                 blinks, wasted, ops, nauto, drawn, oob, nseq, nnoise, nidle, snap, nboot>>

\* The deadlines the program is waiting on.
Deadlines ==
  (IF (state \in 1..8 \/ state = WaitRelease \/ pc = "settle") /\ ~Polling
   THEN {timer1} ELSE {})
  \cup (IF mode = Short /\ player = "play" THEN {timer2} ELSE {})
  \cup (IF mode # Book /\ ~paused /\ IntOf(interval) # 0 /\ player # "play"
        THEN {timer3} ELSE {})

Least(S) == CHOOSE x \in S : \A y \in S : x <= y

\* How long before the play limit of Short mode a press sequence may open:
\* a tap, so that the limit falls into the 1st press, or nine taps, so that
\* it falls behind the 4th release.
Leads == {Tap, 9 * Tap}

\* The steps of time taken.  Inside a busy-wait: a tap right after an edge
\* of the input, or the rest of the wait.  Otherwise, and never beyond the
\* next deadline: a tap right after an edge, the time up to that deadline,
\* up to a lead before the play limit, up to the end of a quiet command
\* timeout, or, with no deadline ahead, so long that every timer passes.
Steps ==
  IF blocked > 0
  THEN {blocked} \cup (IF held < Tap /\ Tap < blocked THEN {Tap} ELSE {})
  ELSE LET due == {t + 1 : t \in {x \in Deadlines : x >= 0}}
           lim == IF due = {} THEN playTime + 1 ELSE Least(due)
           want == (IF held < Tap THEN {Tap} ELSE {})
                   \cup (IF due # {} THEN {lim} ELSE {})
                   \cup (IF pc = "settle" /\ timer1 > 0 /\ ~Polling THEN {timer1} ELSE {})
                   \cup (IF timer2 \in Deadlines
                         THEN {timer2 - l : l \in {x \in Leads : x < timer2}} ELSE {})
                   \cup (IF pc = "loop" /\ state = Idle /\ button = OFF
                         THEN (IF held < CmdTimeOut THEN {CmdTimeOut - held} ELSE {})
                              \cup (IF \E x \in {timer1, timer2, timer3} : x >= 0
                                    THEN {playTime + 1} ELSE {})
                         ELSE {})
       IN {IF d > lim THEN lim ELSE d : d \in want}

Elapse ==
  /\ pc \in {"loop", "settle"} /\ ~Over
  /\ blocked > 0 \/ Quiescent
  /\ IF blocked = 0 /\ pc = "loop" /\ state = Idle /\ nseq = 0
     THEN nidle < MaxIdle /\ nidle' = nidle + 1
     ELSE nidle' = nidle
  /\ \E d \in Steps :
       /\ timer1' = (IF Polling THEN timer1 ELSE Cut(timer1 - d))
       /\ timer2' = Cut(timer2 - d)
       /\ timer3' = Cut(timer3 - d)
       /\ held' = Grow(held, d)
       /\ blocked' = (IF blocked > 0 THEN blocked - d ELSE 0)
  /\ UNCHANGED <<state, fileCount, file, prevFile, fileStep, playCount, mode, volume,
                 interval, count, paused, eeprom, led, volSent, selVars, button,
                 player, pc, cmds, gest, plays, ev, blinks, wasted, ops, nauto, drawn, oob,
                 nseq, nend, nnoise, snap, nboot>>

\* ------------------------------------------------------------ setup()
\* Power-on: the globals as declared, the settings store as it was left.
StoredImages == {[a \in 1..5 |-> b] : b \in (0..MaxStored) \cup {255}}

Init ==
  /\ state = Settle /\ timer1 = 0 /\ timer2 = 0 /\ timer3 = 0
  /\ fileCount = 0 /\ file = 0 /\ prevFile = 0 /\ fileStep = 1 /\ playCount = 0
  /\ mode = 0 /\ volume = 0 /\ interval = 0 /\ count = 0 /\ paused = FALSE
  /\ eeprom \in StoredImages
  /\ led = 0 /\ volSent = 0
  /\ randomTable = FreshSel.table /\ pos = FreshSel.pos /\ prev = FreshSel.prev
  /\ selInit = FreshSel.init
  /\ button = OFF /\ player = "idle" /\ held = HeldMax
  /\ pc = "boot" /\ blocked = 0
  /\ cmds = <<>> /\ gest = <<>> /\ plays = <<>> /\ ev = "none" /\ drawn = <<>> /\ oob = FALSE
  /\ blinks = 0 /\ wasted = {} /\ ops = <<>> /\ nauto = 0
  /\ nseq = 0 /\ nend = 0 /\ nnoise = 0 /\ nidle = 0 /\ snap = <<>> /\ nboot = 0

\* BookBoot that leaves file as it was stored.
BookBoot_NoAdjust(m, f, step, fc) == f

\* if (mode == Book) { file -= fileStep; if (file < 1) file = fileCount; }
BookBoot(m, f, step, fc) ==
  IF m = Book
  THEN LET g == ByteOf(f - step) IN IF g < 1 THEN fc ELSE g
  ELSE f

\* setup(): fc files on the card; step 2 when the probe play(2) did not
\* end on file 2.  The three timers, 0 at power-on, have all passed.
SetupFor(counts) ==
  /\ pc = "boot"
  /\ \E fc \in counts, step \in {1, 2} :
       /\ fc < 2 => step = 2
       /\ fileCount' = fc /\ fileStep' = step
       /\ mode' = eeprom[modeAddr] % modeCount
       /\ volume' = eeprom[volAddr] % volCount
       /\ interval' = eeprom[intAddr] % intvlCount
       /\ count' = eeprom[cntAddr] % cntCount
       /\ file' = BookBoot(eeprom[modeAddr] % modeCount, eeprom[fileAddr], step, fc)
       /\ volSent' = VolOf(eeprom[volAddr] % volCount)
  /\ timer1' = -1 /\ timer2' = -1 /\ timer3' = -1
  /\ led' = 1 /\ pc' = "loop"
  /\ UNCHANGED <<state, prevFile, playCount, paused, eeprom, selVars, envVars,
                 blocked, histVars>>

Setup == SetupFor(1..MaxFiles)

Next == Setup \/ Loop \/ Press \/ Release \/ TrackEnds \/ Elapse
Spec == Init /\ [][Next]_vars

\* ------------------------------------------ random selection on its own
\* playRandom() called again and again, as autoplay calls it, for every
\* file count up to MaxPlayFiles, either step, and every value the commands
\* in between may leave in file.
PlayInit ==
  /\ fileCount \in 1..MaxPlayFiles /\ fileStep \in {1, 2}
  /\ fileCount < 2 => fileStep = 2
  /\ file \in (0..MaxPlayFiles) \cup {255}
  /\ randomTable = FreshSel.table /\ pos = FreshSel.pos /\ prev = FreshSel.prev
  /\ selInit = FreshSel.init
  /\ state = Idle /\ timer1 = -1 /\ timer2 = -1 /\ timer3 = -1
  /\ prevFile = 0 /\ playCount = 0
  /\ mode = Full /\ volume = 0 /\ interval = 0 /\ count = cntCount - 1 /\ paused = FALSE
  /\ eeprom = [a \in 1..5 |-> 255] /\ led = 1 /\ volSent = VolOf(0)
  /\ button = OFF /\ player = "idle" /\ held = HeldMax
  /\ pc = "play" /\ blocked = 0
  /\ cmds = <<>> /\ gest = <<>> /\ plays = <<>> /\ ev = "none" /\ drawn = <<>> /\ oob = FALSE
  /\ blinks = 0 /\ wasted = {} /\ ops = <<>> /\ nauto = 0
  /\ nseq = 0 /\ nend = 0 /\ nnoise = 0 /\ nidle = 0 /\ snap = <<>> /\ nboot = 0

\* playRandom(); playCount++; timer2 = millis() + playTime; paused = false;
Select ==
  /\ pc = "play" /\ nauto < MaxPlays
  /\ \E in \in Inputs(fileCount) : Becomes(Autoplayed(PlayRandom(Cur, in)))
  /\ UNCHANGED <<button, held, gest, drawn, nseq, nend, nnoise, nidle, snap, nboot>>

\* What the other commands do to file between two selections: the reset
\* sets it to 0, entering Book mode sets it to 1, and the command S2 swaps
\* it with prevFile.
FileReset ==
  /\ pc = "play" /\ file # 0
  /\ file' = 0 /\ plays' = <<>> /\ ev' = "none"
  /\ UNCHANGED <<state, timer1, timer2, timer3, fileCount, prevFile, fileStep, playCount,
                 mode, volume, interval, count, paused, eeprom, led, volSent, selVars,
                 envVars, pc, blocked, cmds, gest, blinks, wasted, ops, nauto, drawn, oob,
                 nseq, nend, nnoise, nidle, snap, nboot>>

FileFirst ==
  /\ pc = "play" /\ file # 1
  /\ file' = 1 /\ plays' = <<>> /\ ev' = "none"
  /\ UNCHANGED <<state, timer1, timer2, timer3, fileCount, prevFile, fileStep, playCount,
                 mode, volume, interval, count, paused, eeprom, led, volSent, selVars,
                 envVars, pc, blocked, cmds, gest, blinks, wasted, ops, nauto, drawn, oob,
                 nseq, nend, nnoise, nidle, snap, nboot>>

FileSwap ==
  /\ pc = "play" /\ file # prevFile
  /\ file' = prevFile /\ prevFile' = file /\ plays' = <<>> /\ ev' = "none"
  /\ UNCHANGED <<state, timer1, timer2, timer3, fileCount, fileStep, playCount,
                 mode, volume, interval, count, paused, eeprom, led, volSent, selVars,
                 envVars, pc, blocked, cmds, gest, blinks, wasted, ops, nauto, drawn, oob,
                 nseq, nend, nnoise, nidle, snap, nboot>>

SelectNext == Select \/ FileReset \/ FileFirst \/ FileSwap
SpecPlay == PlayInit /\ [][SelectNext]_vars

\* ------------------------------------------- whole press sequences
\* The program run through whole press sequences made at an even pace: the
\* input changes only while loop() is polling, every press and gap that is
\* meant short lasts one tap, and nothing is pressed while a track is about
\* to reach its play limit.  An action starts and ends with the decoder in
\* Idle; plays, ops, blinks and wasted then cover all its control cycles.

\* Control cycles an action may take before it is given up.
Fuel == 40

\* The busy-wait of the latest cycle, and d ms more, have passed.
Pass(s, d) ==
  [s EXCEPT !.timer1 = Cut(@ - s.w - d), !.timer2 = Cut(@ - s.w - d),
            !.timer3 = Cut(@ - s.w - d), !.w = 0]

\* loop() run again and again until a cycle changes nothing.
RECURSIVE Cycles(_, _, _)
RECURSIVE CyclesOn(_, _, _, _)
Cycles(s, in, fuel) ==
  IF fuel = 0 \/ s.pc = "hung" THEN s ELSE CyclesOn(s, LoopStep(s, in), in, fuel)

CyclesOn(s, r, in, fuel) ==
  IF r = s THEN s ELSE Cycles(Pass(r, 0), in, fuel - 1)

\* loop() run until it waits for the input: the command timeout of a
\* decoder state and the quiet time of case 99 are waited out.
RECURSIVE RunIdle(_, _, _)
RECURSIVE RunOn(_, _, _)
RunIdle(s, in, fuel) == RunOn(Cycles(s, in, Fuel), in, fuel)

RunOn(q, in, fuel) ==
  IF fuel = 0 \/ q.pc = "hung" THEN q
  ELSE IF q.pc = "settle" /\ q.timer1 > 0 /\ q.button = OFF
  THEN RunIdle(Pass(q, q.timer1), in, fuel - 1)
  ELSE IF q.state \in 1..8 /\ q.timer1 >= 0
  THEN RunIdle(Pass(q, q.timer1 + 1), in, fuel - 1)
  ELSE q

\* The input goes to level b, is sampled, and stays there for a tap.
Tapped(s, b, in) == Pass(Cycles([s EXCEPT !.button = b], in, Fuel), Tap)

\* k short presses, each followed by a short gap.
RECURSIVE Pairs(_, _, _)
Pairs(s, k, in) ==
  IF k = 0 THEN s ELSE Pairs(Tapped(Tapped(s, ON, in), OFF, in), k - 1, in)

\* k short press/release pairs, then quiet.
ShortGesture(s, k, in) == RunIdle(Pairs(s, k, in), in, Fuel)

\* The input is released after hold ms more, then quiet.
Released(a, hold, in) == RunIdle([Pass(a, hold) EXCEPT !.button = OFF], in, Fuel)

\* k - 1 short pairs, then a press held until the decoder has acted on it
\* and hold ms longer.
LongGesture(s, k, hold, in) ==
  Released(RunIdle([Pairs(s, k - 1, in) EXCEPT !.button = ON], in, Fuel), hold, in)

Gestures ==
  {<<"S", k, 0>> : k \in 1..5} \cup {<<"L", k, 0>> : k \in 1..4}
    \cup {<<"L", 1, sleepTimeOut>>}

Gesture(s, g, in) ==
  IF g[1] = "S" THEN ShortGesture(s, g[2], in) ELSE LongGesture(s, g[2], g[3], in)

\* What an action may be handed: the shuffles of up to two regenerations;
\* the player answers the first play request.
CmdInputs(n) ==
  [rs : ShufflePicks(Clamp(n)) \X ShufflePicks(Clamp(n)), g : {0}, tries : {1}]

\* The decoder is in Idle with loop() polling.
AtRest == pc = "loop" /\ state = Idle /\ blocked = 0 /\ button = OFF

\* No track reaches its play limit while a press sequence is made.
Clear == player = "play" => (timer2 < 0 \/ timer2 > sleepTimeOut + playTime \div 2)

CmdSetup == SetupFor(1..MaxCmdFiles)

\* setup() has returned, or the power is back: loop() runs until it waits.
Start ==
  /\ pc = "loop" /\ state = Settle /\ blocked = 0
  /\ \E in \in (IF UsesInput(RunIdle(Cur, NoInput, Fuel)) THEN CmdInputs(fileCount)
                 ELSE {NoInput}) :
       Becomes(Pass(RunIdle(Cur, in, Fuel), 0))
  /\ UNCHANGED <<button, held, gest, drawn, nseq, nend, nnoise, nidle, snap, nboot>>

\* A whole press sequence.
Command ==
  /\ AtRest /\ Clear /\ nseq < MaxCmds
  /\ \E g \in Gestures :
       /\ \E in \in (IF UsesInput(Gesture([Cur EXCEPT !.cmds = <<>>], g, NoInput))
                      THEN CmdInputs(fileCount) ELSE {NoInput}) :
            Becomes(Pass(Gesture([Cur EXCEPT !.cmds = <<>>], g, in), 0))
       /\ gest' = g
  /\ nseq' = nseq + 1 /\ snap' = <<mode, volume, interval, count, file>>
  /\ UNCHANGED <<button, held, drawn, nend, nnoise, nidle, nboot>>

\* The track that is playing ends while the decoder is in Idle.
Finish ==
  /\ AtRest /\ player = "play" /\ nend < MaxEnds
  /\ \E in \in (IF UsesInput(RunIdle([Cur EXCEPT !.player = "idle"], NoInput, Fuel))
                 THEN CmdInputs(fileCount) ELSE {NoInput}) :
       Becomes(Pass(RunIdle([Cur EXCEPT !.player = "idle"], in, Fuel), 0))
  /\ nend' = nend + 1
  /\ UNCHANGED <<button, held, gest, drawn, nseq, nnoise, nidle, snap, nboot>>

\* The next deadline passes while the decoder is in Idle: the play limit
\* of the track that is playing, or the autoplay interval.
Due ==
  (IF player = "play" /\ timer2 >= 0 THEN {timer2} ELSE {})
  \cup (IF mode # Book /\ ~paused /\ IntOf(interval) # 0 /\ player # "play" /\ timer3 >= 0
        THEN {timer3} ELSE {})

Await ==
  /\ AtRest /\ Due # {} /\ nidle < MaxWaits
  /\ \E in \in (IF UsesInput(RunIdle(Pass(Cur, Least(Due) + 1), NoInput, Fuel))
                 THEN CmdInputs(fileCount) ELSE {NoInput}) :
       Becomes(Pass(RunIdle(Pass(Cur, Least(Due) + 1), in, Fuel), 0))
  /\ nidle' = nidle + 1
  /\ UNCHANGED <<button, held, gest, drawn, nseq, nend, nnoise, snap, nboot>>

\* The power is cut while the decoder is in Idle and comes back: the
\* globals are as declared again, the settings store is as it was left.
\* The run is then followed until loop() waits in Idle again.
PowerCycle ==
  /\ AtRest /\ nboot < MaxBoots
  /\ state' = Settle /\ timer1' = 0 /\ timer2' = 0 /\ timer3' = 0
  /\ fileCount' = 0 /\ file' = 0 /\ prevFile' = 0 /\ fileStep' = 1 /\ playCount' = 0
  /\ mode' = 0 /\ volume' = 0 /\ interval' = 0 /\ count' = 0 /\ paused' = FALSE
  /\ led' = 0 /\ volSent' = 0
  /\ randomTable' = FreshSel.table /\ pos' = FreshSel.pos /\ prev' = FreshSel.prev
  /\ selInit' = FreshSel.init
  /\ player' = "idle" /\ pc' = "boot"
  /\ plays' = <<>> /\ ops' = <<>> /\ blinks' = 0 /\ wasted' = {} /\ ev' = "off"
  /\ snap' = <<mode, volume, interval, count, file>>
  /\ nboot' = nboot + 1
  /\ nseq' = MaxCmds /\ nend' = MaxEnds /\ nidle' = MaxWaits
  /\ UNCHANGED <<eeprom, button, held, blocked, cmds, gest, nauto, drawn, oob, nnoise>>

CmdNext == CmdSetup \/ Start \/ Command \/ Finish \/ Await \/ PowerCycle
SpecCmd == Init /\ [][CmdNext]_vars

\* ------------------------------------------- power-on in Book mode
\* The settings store as Book mode left it: the mode byte is Book, the file
\* byte is a chapter, the other settings are 0.
BookImages ==
  {[a \in 1..5 |-> IF a = fileAddr THEN f ELSE IF a = modeAddr THEN Book ELSE 0] :
     f \in 1..MaxCmdFiles}

BookInit ==
  /\ state = Settle /\ timer1 = 0 /\ timer2 = 0 /\ timer3 = 0
  /\ fileCount = 0 /\ file = 0 /\ prevFile = 0 /\ fileStep = 1 /\ playCount = 0
  /\ mode = 0 /\ volume = 0 /\ interval = 0 /\ count = 0 /\ paused = FALSE
  /\ eeprom \in BookImages
  /\ led = 0 /\ volSent = 0
  /\ randomTable = FreshSel.table /\ pos = FreshSel.pos /\ prev = FreshSel.prev
  /\ selInit = FreshSel.init
  /\ button = OFF /\ player = "idle" /\ held = HeldMax
  /\ pc = "boot" /\ blocked = 0
  /\ cmds = <<>> /\ gest = <<>> /\ plays = <<>> /\ ev = "none" /\ drawn = <<>> /\ oob = FALSE
  /\ blinks = 0 /\ wasted = {} /\ ops = <<>> /\ nauto = 0
  /\ nseq = 0 /\ nend = 0 /\ nnoise = 0 /\ nidle = 0 /\ snap = <<>> /\ nboot = 0

SpecBook == BookInit /\ [][CmdNext]_vars

\* ------------------------------------------------------------- claims
\* The press sequence opened at Idle has been decoded: the decoder is back
\* in Idle, the loop is polling, and the input has been quiet for a command
\* timeout.
Settled ==
  /\ pc = "loop" /\ state = Idle /\ blocked = 0 /\ nseq > 0
  /\ button = OFF /\ held >= CmdTimeOut

\* The opening press was sampled by the decoder at once.
Sampled == gest # <<>> /\ gest[1] = "polled"

\* The input so far: k short presses, each followed by a short gap, except
\* that the gap after the last one is still running.
ShortPairs(k) == Len(gest) = 2 * k /\ \A i \in 2..(2 * k) : gest[i] = "s"

\* The input so far: k - 1 short press/release pairs, then a press held for
\* longer than the command timeout, and its release.
LongAfter(k) ==
  /\ Len(gest) = 2 * k
  /\ \A i \in 2..(2 * k - 1) : gest[i] = "s"
  /\ gest[2 * k] = "l"

\* The input so far: four short press/release pairs and a fifth press after
\* a short gap.
FifthPress == Len(gest) >= 9 /\ \A i \in 2..9 : gest[i] = "s"

LongCmd(k) == <<"L1", "L2", "L3", "L4">>[k]
ShortCmd(k) == <<"S1", "S2", "S3", "S4">>[k]

\* C1: a single press shorter than the command timeout, taken from Idle and
\* followed by its release and a quiet command timeout, runs the action S1
\* exactly once and no other command action.
C1_ShortPressRunsNext ==
  (Settled /\ Sampled /\ ShortPairs(1)) => cmds = <<"S1">>

\* C2: a single press from Idle that is held for longer than the command
\* timeout runs the action L1 exactly once, and S1 is not run for it,
\* neither while it is held nor after its release.
C2_LongPressRunsStop ==
  /\ (Len(gest) = 1 /\ button = ON /\ held > CmdTimeOut + debounce)
       => (cmds = <<>> \/ cmds = <<"L1">>)
  /\ (Settled /\ LongAfter(1)) => cmds = <<"L1">>

\* C3: four short press/release pairs and a quiet command timeout run the
\* action S4, and S4 is still run when a fifth press arrives before the
\* timeout.
C3_FourPairsRunReset ==
  (Settled /\ Sampled /\ (ShortPairs(4) \/ FifthPress)) => cmds = <<"S4">>

\* C4: a press sequence with more than four presses before the command
\* timeout runs no command action, and the decoder is back in Idle with
\* mode, volume, interval, count and file as they were.
C4_ExtraPressRunsNothing ==
  (Sampled /\ FifthPress) =>
     /\ cmds = <<>>
     /\ Settled => <<mode, volume, interval, count, file>> = snap

\* C5: for k in 1..4, k - 1 short pairs and a press held past the command
\* timeout run exactly the action Lk, and k short pairs and a quiet command
\* timeout run exactly the action Sk.
C5_PatternsRunTheirCommand ==
  (Settled /\ Sampled) =>
     \A k \in 1..4 : /\ LongAfter(k) => cmds = <<LongCmd(k)>>
                     /\ ShortPairs(k) => cmds = <<ShortCmd(k)>>

\* C6: the decoder enters Idle only out of the settle state, when the input
\* has been inactive for a full command timeout; a press it decodes as the
\* first of a command went active while the decoder was in Idle.
C6_IdleOnlyAfterQuiet ==
  [][/\ (state' = Idle /\ state # Idle)
          => (state = Settle /\ pc = "settle" /\ button = OFF /\ held >= CmdTimeOut)
     /\ (state = Idle /\ state' = 1) => (button = ON /\ Len(gest) = 1)]_vars

\* A press arrived while the decoder waited for the release of a long press
\* or settled after a command, and the decoder has come back to Idle.
C6_Witness ==
  /\ pc = "loop" /\ state = Idle /\ button = OFF
  /\ nnoise = 1 /\ cmds # <<>>

\* C7: boot loads mode, volume, interval and count as the stored byte modulo
\* the option count, whatever the byte, and after any commands each of them
\* is below its option count, so that the lookups into volArray, intArray
\* and cntArray are in bounds.
C7_SettingsInRange ==
  Running =>
    /\ mode \in 0..(modeCount - 1) /\ volume \in 0..(volCount - 1)
    /\ interval \in 0..(intvlCount - 1) /\ count \in 0..(cntCount - 1)
    /\ volume + 1 \in DOMAIN volArray
    /\ interval + 1 \in DOMAIN intArray
    /\ count + 1 \in DOMAIN cntArray
    /\ nseq = 0 =>
         /\ mode = eeprom[modeAddr] % modeCount
         /\ volume = eeprom[volAddr] % volCount
         /\ interval = eeprom[intAddr] % intvlCount
         /\ count = eeprom[cntAddr] % cntCount

\* The store was never written when the module booted, and a command that
\* changes a setting has run since.
C7_Witness ==
  /\ Running /\ eeprom[fileAddr] = 255
  /\ \E c \in {"L2", "L3", "L4", "S3"} : cmds = <<c>>

\* C8: once boot has completed, file lies in 1..fileCount.
C8_FileInRange == Running => file \in 1..fileCount

\* C9: every index passed to the player's play request after boot lies in
\* 1..fileCount.
C9_PlaysInRange == \A i \in DOMAIN plays : plays[i] \in 1..fileCount

\* C10: the first fileCount draws of the selector from a fresh table return
\* each value of 1..fileCount exactly once.
C10_FirstDrawsPermute ==
  pc = "sel" =>
    \A i, j \in 1..Len(drawn) :
      (i <= fileCount /\ j <= fileCount) =>
        /\ drawn[i] \in 1..fileCount
        /\ i # j => drawn[i] # drawn[j]

\* C11: for fileCount >= 2 no two consecutive draws of the selector are
\* equal, also across a regeneration of the shuffle table, and a randomized
\* selection plays an index other than the one file held before it (which
\* playRandom keeps in prevFile).
C11_NoImmediateRepeat ==
  /\ (pc = "sel" /\ fileCount >= 2)
       => \A i \in 1..(Len(drawn) - 1) : drawn[i] # drawn[i + 1]
  /\ (pc # "sel" /\ ev = "auto") => \A i \in DOMAIN plays : plays[i] # prevFile

\* C12: with the odd-only constraint active (fileStep = 2), every index a
\* randomized selection plays is odd and at most fileCount.
C12_OddOnlyPlaysOdd ==
  (fileStep = 2 /\ pc \in {"play", "hung"}) =>
     \A i \in DOMAIN plays : plays[i] % 2 = 1 /\ plays[i] \in 1..fileCount

\* An even value was drawn and passed over, and an odd file other than the
\* first was played, in the third selection in a row.
C12_Witness ==
  /\ fileStep = 2 /\ fileCount = MaxPlayFiles /\ ev = "auto" /\ nauto = MaxPlays
  /\ plays # <<>> /\ plays[1] = 3 /\ prevFile = 1
  /\ pos > 1 /\ randomTable[pos - 2] % 2 = 1

\* C13: the draw loop of playRandom ends on every call, for every
\* fileCount >= 1, either step and every previous file.
C13_DrawLoopEnds == ~(pc = "hung" /\ plays = <<>>)

\* C14: the command S1 run with paused = false outside Book mode draws a
\* file other than the previous one, issues the play request for it exactly
\* once, and arms the play limit playTime from then.
C14_NextPlaysOnce ==
  [][(cmds' = Append(cmds, "S1") /\ mode # Book /\ ~paused) =>
        /\ pc' = "loop" /\ file' # file
        /\ plays' = <<file'>>
        /\ timer2' = blocked' + playTime]_vars

\* The latest command run in the press sequence is c.
Last(c) == cmds # <<>> /\ cmds[Len(cmds)] = c

\* C15 as stated: with mode = Full one L2 makes the mode Book, sets file to
\* 1, issues no play request, leaves the player not playing, and blinks the
\* status LED 3 times.
C15_FullToBook ==
  [][(cmds' = Append(cmds, "L2") /\ mode = Full) =>
        /\ mode' = Book /\ file' = 1
        /\ plays' = <<>> /\ player' # "play"
        /\ blinks' = 3]_vars

\* C15: the command L2 advances the mode in the order Full, Short, Book,
\* Full and blinks the status LED once more than the number of the new mode.
\* With mode = Full it makes the mode Short with 2 blinks, file kept and no
\* play request.  With mode = Short it makes the mode Book with 3 blinks,
\* sets file to 1, and issues one play request for file 1 that it pauses at
\* once, so that the player is left paused with the paused flag set.
C15_ModeAdvances ==
  [][(cmds' = Append(cmds, "L2")) =>
        /\ mode' = (mode + 1) % modeCount /\ blinks' = mode' + 1
        /\ eeprom'[modeAddr] = mode'
        /\ mode = Full => (mode' = Short /\ blinks' = 2 /\ file' = file /\ plays' = <<>>)
        /\ mode = Short => /\ mode' = Book /\ blinks' = 3 /\ file' = 1
                           /\ plays' = <<1>> /\ player' = "pause" /\ paused'
                           /\ eeprom'[fileAddr] = 1
        /\ mode = Book => (mode' = Full /\ blinks' = 1 /\ file' = file /\ plays' = <<>>)]_vars

\* The command L2 has just made Book the mode of a module that was playing
\* in Short mode.
C15_Witness ==
  /\ cmds = <<"L2">> /\ state = WaitRelease /\ mode = Book /\ blinks = 3
  /\ snap[1] = Short /\ snap[5] # 1 /\ file = 1 /\ player = "pause"

\* C16: when the command L2 has made Book the mode and the decoder is back
\* in Idle, file is 1, the paused flag is set and the player is not playing.
C16_BookStartsPaused ==
  (Last("L2") /\ mode = Book /\ pc = "loop" /\ state = Idle) =>
     (file = 1 /\ paused /\ player # "play")

\* C17: once the command S4 has run, mode is Full, volume is Med, interval
\* and count are their defaults, each of the four stored bytes equals its
\* default, the player is stopped and the volume sent to it is the default
\* level.
C17_ResetRestoresDefaults ==
  Last("S4") =>
     /\ mode = Full /\ volume = 1 /\ interval = intvlReset /\ count = cntReset
     /\ eeprom[modeAddr] = modeReset /\ eeprom[volAddr] = volReset
     /\ eeprom[intAddr] = intvlReset /\ eeprom[cntAddr] = cntReset
     /\ player = "idle" /\ volSent = volArray[volReset + 1]

\* The reset has run in a module that was in Book mode at volume High.
C17_Witness ==
  /\ Last("S4") /\ snap[1] = Book /\ snap[2] = volCount - 1
  /\ pc = "loop" /\ state = Idle

\* C18: a control cycle issues a play request without running a command
\* only as autoplay, and then the mode is not Book, paused is false, the
\* interval is not off, the input is inactive, the player reports idle and
\* the autoplay deadline timer3 has passed when the cycle starts, and the
\* decoder is in Idle when the request is made.
C18_AutoplayOnlyWhenDue ==
  [][(blocked = 0 /\ blocked' > 0 /\ plays' # <<>> /\ cmds' = cmds) =>
        /\ ev' = "auto"
        /\ mode # Book /\ ~paused /\ intArray[interval + 1] # 0
        /\ button = OFF /\ state' = Idle
        /\ player # "play" /\ timer3 < 0]_vars

\* Autoplay has played a file in the cycle that brought the decoder back to
\* Idle after a command.
C18_Witness ==
  /\ ev = "auto" /\ plays # <<>> /\ cmds # <<>> /\ pc = "loop" /\ state = Idle

\* C19: with a repeat cap k in {1, 2, 3}, autoplay plays at most k files
\* between boot and the first press, and between one press taken at Idle and
\* the next: once k automatic plays are done, no interval that elapses
\* produces another.
C19_AutoplayCapped ==
  cntArray[count + 1] # 0 => nauto <= cntArray[count + 1]

\* Since boot, with no input, two files have been played under a cap of 2;
\* the player is idle again and the interval has elapsed.
C19_Witness ==
  /\ nseq = 0 /\ cntArray[count + 1] = 2 /\ nauto = 2 /\ playCount = 2
  /\ pc = "loop" /\ state = Idle /\ blocked = 0 /\ button = OFF
  /\ mode # Book /\ ~paused /\ intArray[interval + 1] # 0
  /\ player = "idle" /\ timer3 < 0

\* C20: no command writes a byte of the settings store that already holds
\* the value written.
C20_WritesOnlyChanges == wasted = {}

\* The blinks the command c shows: one more than the new value of the
\* setting it changes, one for the reset, none for the other commands.
BlinksOf(c, m, i, v, n) ==
  CASE c = "L2" -> m + 1
    [] c = "L3" -> i + 1
    [] c = "S3" -> v + 1
    [] c = "L4" -> n + 1
    [] c = "S4" -> 1
    [] OTHER -> 0

\* C22: the commands L2, L3, S3 and L4 blink the status LED n + 1 times,
\* n the new value of the setting changed; S4 blinks once; S1, L1 and S2 do
\* not blink.
C22_BlinksShowNewValue ==
  [][\A c \in {"L1", "S1", "L2", "S2", "L3", "S3", "L4", "S4"} :
       cmds' = Append(cmds, c) => blinks' = BlinksOf(c, mode', interval', volume', count')]_vars

\* The command L4 has set the count to its last value and blinked 4 times.
C22_Witness == cmds = <<"L4">> /\ count = cntCount - 1 /\ blinks = cntCount

\* C23: at every control-cycle boundary after boot at which the decoder is
\* in Idle the status LED is on; it is off only while a press sequence is
\* decoded or a command is processed.
C23_LedOnWhenIdle ==
  Running => /\ state = Idle => led = 1
             /\ led = 0 => state \in (1..8) \cup {WaitRelease, Settle}

\* The Short-mode fade, which turns the LED off and on again, has run in
\* Idle after a command.
C23_Witness ==
  /\ pc = "loop" /\ state = Idle /\ ev = "fade" /\ led = 1 /\ cmds # <<>>

\* C24: the retry loop of a play function sends the same index with every
\* request and returns only once the player is busy; it returns whenever
\* the player can play the index.
C24_RetrySameIndex ==
  [][(blocked = 0 /\ blocked' > 0 /\ plays' # <<>>
      /\ (ev' = "auto" \/ cmds' = Append(cmds, "S1")
          \/ (cmds' = Append(cmds, "S2") /\ mode = Book))) =>
        /\ \A i \in DOMAIN plays' : plays'[i] = file'
        /\ pc' # "hung" => player' = "play"
        /\ (file' \in 1..fileCount /\ (fileStep = 1 \/ file' % 2 = 1)) => pc' # "hung"]_vars

\* A play function has sent its request twice and returned with the player
\* busy.
C24_Witness ==
  /\ Len(plays) = 2 /\ plays[1] = plays[2] /\ player = "play" /\ pc = "loop"
  /\ blocked > 0

\* C25: the command L1 run while the player is busy sends the volume levels
\* from the configured one down to 0, each lower than the one before, then
\* pause, then the configured volume, and sets paused; run while the player
\* is not busy it sends nothing to the player and leaves paused as it is.
C25_StopFadesThenPauses ==
  [][cmds' = Append(cmds, "L1") =>
       LET V == volArray[volume + 1]
       IN IF player = "play"
          THEN /\ Len(ops') = V + 3
               /\ \A i \in 1..(V + 1) : ops'[i][1] = "volume"
               /\ ops'[1][2] = V /\ ops'[V + 1][2] = 0
               /\ \A i \in 1..V : ops'[i + 1][2] < ops'[i][2]
               /\ ops'[V + 2] = <<"pause", 0>>
               /\ ops'[V + 3] = <<"volume", V>>
               /\ paused' /\ volSent' = V /\ player' = "pause"
          ELSE ops' = <<>> /\ paused' = paused /\ player' = player]_vars

\* The command L1 has paused a player that was busy.
C25_Witness ==
  /\ cmds = <<"L1">> /\ state = WaitRelease /\ player = "pause" /\ paused
  /\ Len(ops) > 2

C21_SettingsSurvivePower ==
  /\ (pc = "loop" /\ state = Idle) =>
        /\ mode = eeprom[modeAddr] % modeCount
        /\ volume = eeprom[volAddr] % volCount
        /\ interval = eeprom[intAddr] % intvlCount
        /\ count = eeprom[cntAddr] % cntCount
  /\ (pc = "loop" /\ ev = "off") =>
        <<mode, volume, interval, count>> = <<snap[1], snap[2], snap[3], snap[4]>>

\* The power was cut after the volume had been changed, and boot has run.
C21_Witness ==
  /\ pc = "loop" /\ ev = "off" /\ cmds = <<"S3">>
  /\ volume = snap[2] /\ volume # 255 % volCount

\* A press sequence made while the decoder was in Idle has just run the
\* command c and nothing else.
Ran(c) == AtRest /\ nseq' = nseq + 1 /\ pc' # "boot" /\ cmds' = <<c>>

\* C27: the command S1 run while paused with a file selected sends resume
\* to the player and nothing else, leaves file and prevFile as they are,
\* clears paused and arms the play limit; run while paused after the reset
\* (file = 0) it stops the player, draws a file and plays it.
C27_NextResumesPaused ==
  [][(Ran("S1") /\ paused) =>
        IF file > 0
        THEN /\ ops' = << <<"start", 0>> >> /\ plays' = <<>>
             /\ file' = file /\ prevFile' = prevFile
             /\ ~paused' /\ timer2' \in (playTime - 2 * CmdTimeOut)..playTime
        ELSE /\ plays' # <<>> /\ ops'[1] = <<"stop", 0>>
             /\ file' \in 1..fileCount /\ plays'[1] = file' /\ ~paused']_vars

\* The command S1 has resumed a paused track with a file selected: the file
\* is the one selected before, no play request was sent, paused is clear.
C27_Witness ==
  /\ AtRest /\ cmds = <<"S1">> /\ file = snap[5] /\ file > 0 /\ plays = <<>>
  /\ ops = << <<"start", 0>> >> /\ ~paused /\ timer2 > 0

\* The command S1 has drawn and played a file as the first command after
\* the reset.
C27_AfterReset ==
  /\ AtRest /\ cmds = <<"S1">> /\ snap[5] = 0 /\ snap[1] = Full /\ plays # <<>>
  /\ eeprom[modeAddr] = modeReset /\ eeprom[fileAddr] = 0

\* C29: the first S1 after the command L2 has entered Book mode plays file
\* 1: file stays 1, the player is busy, and no other index is requested.
C29_BookStartsAtChapterOne ==
  [][(Ran("S1") /\ cmds = <<"L2">> /\ mode = Book /\ file = 1) =>
        /\ file' = 1 /\ player' = "play"
        /\ \A i \in DOMAIN plays' : plays'[i] = 1]_vars

\* C30: in Book mode with fileStep = 2, a command S1 or S2 run from an odd
\* file within 1..fileCount plays only odd indices within 1..fileCount.
C30_BookPlaysOddOnly ==
  (mode = Book /\ fileStep = 2 /\ snap # <<>> /\ snap[1] = Book
   /\ snap[5] % 2 = 1 /\ snap[5] \in 1..fileCount
   /\ (cmds = <<"S1">> \/ cmds = <<"S2">>) /\ ev # "off") =>
     \A i \in DOMAIN plays : plays[i] % 2 = 1 /\ plays[i] \in 1..fileCount

\* C28: randomNumber never reads or writes randomTable outside 0..N-1,
\* whatever the file count and the number of draws.
C28_TableInBounds == ~oob

\* The time fadeVolumeDown(maxVolume) spends in its per-level waits.
FadeWindow(maxVolume) == FadeWait(maxVolume) - 100

\* C40: the per-level waits of a fade add up to the same time for each of
\* the three volume levels, and to no more than 3000 ms: the command L1 run
\* while the player is busy blocks for that one window, the 100 ms at the
\* end of the fade and the 100 ms after the pause.
C40_FadeWindowFixed ==
  [][(cmds' = Append(cmds, "L1") /\ player = "play") =>
       /\ blocked' - 200 <= 3000
       /\ \A v \in 1..volCount : blocked' - 200 = FadeWindow(volArray[v])]_vars

\* The player can be sent the index f: it is on the card, and odd when the
\* even files are unavailable.
Addressable(f) == f \in 1..fileCount /\ (fileStep = 1 \/ f % 2 = 1)

\* C31: in Book mode, from an addressable chapter f and with paused false,
\* S1 then S2 leaves file = f and S2 then S1 leaves file = f; neither
\* command fails to return.
C31_NextPrevInverse ==
  [][/\ (Ran("S2") /\ cmds = <<"S1">> /\ mode = Book /\ snap[1] = Book
           /\ Addressable(snap[5]) /\ ~paused) => (pc' = "loop" /\ file' = snap[5])
     /\ (Ran("S1") /\ cmds = <<"S2">> /\ mode = Book /\ snap[1] = Book
           /\ Addressable(snap[5]) /\ ~paused) => (pc' = "loop" /\ file' = snap[5])
     /\ (Ran("S2") /\ mode = Book /\ Addressable(file)) => pc' = "loop"]_vars

\* C32: after power-on in Book mode with an addressable chapter f stored,
\* the first S1 plays the index f and no other.
C32_BookBootResumes ==
  [][(Ran("S1") /\ nseq = 0 /\ nboot = 0 /\ mode = Book
        /\ Addressable(eeprom[fileAddr])) =>
       /\ plays' # <<>> /\ \A i \in DOMAIN plays' : plays'[i] = eeprom[fileAddr]
       /\ file' = eeprom[fileAddr] /\ player' = "play" /\ pc' = "loop"]_vars

\* Chapter 1 was stored and the odd files only are available: the boot
\* adjustment wrapped below zero, and the first S1 has played chapter 1.
C32_Witness ==
  /\ AtRest /\ cmds = <<"S1">> /\ nseq = 1 /\ nboot = 0 /\ fileStep = 2
  /\ snap[1] = Book /\ snap[5] = 255 /\ plays = <<1>> /\ file = 1

\* C33: in Book mode, when S1 run with paused false, S2, or an L2 that
\* enters Book mode has completed, the stored file byte equals file.
C33_ChapterStored ==
  [][(/\ (Ran("S1") /\ ~paused) \/ Ran("S2") \/ Ran("L2")
      /\ mode' = Book /\ pc' = "loop") => eeprom'[fileAddr] = file']_vars

\* The command S2 has gone back a chapter in Book mode and stored it.
C33_Witness ==
  /\ AtRest /\ cmds = <<"S2">> /\ mode = Book /\ snap[1] = Book
  /\ file # snap[5] /\ eeprom[fileAddr] = file /\ plays = <<file>>

\* C34: with a repeat cap of 1, 2 or 3 the play counter never exceeds the
\* cap, whatever commands, automatic plays and power cycles came before.
C34_PlayCountCapped ==
  cntArray[count + 1] # 0 => playCount <= cntArray[count + 1]

\* After the command S1 set the play counter to 1 and its track ended,
\* autoplay has raised the counter to the cap of 2.
C34_Witness ==
  /\ AtRest /\ cmds = <<"S1">> /\ ev = "auto" /\ cntArray[count + 1] = 2
  /\ playCount = 2

\* C35: at every control-cycle boundary after boot at which the decoder is
\* in Idle, the volume last sent to the player is volArray[volume].
C35_VolumeRestored ==
  (pc = "loop" /\ state = Idle) => volSent = volArray[volume + 1]

\* The Short-mode fade has stepped the volume down to 0, stopped the player
\* and sent the configured volume again.
C35_Witness ==
  /\ pc = "loop" /\ state = Idle /\ ev = "fade" /\ Len(ops) > 2
  /\ ops[1][1] = "volume" /\ ops[Len(ops)] = <<"volume", volArray[volume + 1]>>
  /\ volSent = volArray[volume + 1]

\* Segment n of the input since the opening press (segment 2k is the k-th
\* press, segment 2k + 1 the gap after it) has lasted a command timeout, and
\* none of the segments before it was long.
LastedTimeout(n) ==
  /\ \/ Len(gest) = n - 1 /\ held >= CmdTimeOut
     \/ Len(gest) >= n /\ gest[n] # "s"
  /\ \A i \in 2..(n - 1) : gest[i] # "l"

\* C36: a fade that blocks the loop during a press sequence does not change
\* how the sequence is decoded: the command Lk runs only when the k-th
\* press has lasted a command timeout, and the command Sk only when the gap
\* after the k-th release has.
C36_FadeKeepsDecoding ==
  [][\A k \in 1..4 :
       /\ (Sampled /\ cmds' = Append(cmds, LongCmd(k))) => LastedTimeout(2 * k)
       /\ (Sampled /\ cmds' = Append(cmds, ShortCmd(k))) => LastedTimeout(2 * k + 1)]_vars

\* C37: autoplay starts no track sooner than one interval after the end of
\* boot: before the first press the decoder, which leaves case 99 after its
\* settle time of less than any interval, has been in Idle and the loop has
\* waited there when an automatic play starts.
C37_AutoplayWaitsInterval ==
  [][(ev' = "auto" /\ nseq = 0) => (state = Idle /\ nidle > 0)]_vars

\* With the decoder in Idle and the input left alone, the pass of loop()
\* made d ms from now plays nothing.
StaysSilent(d) == LoopStep(Pass(Cur, d), NoInput).plays = <<>>

\* C38: after the command L1 has paused a busy player, a release before
\* the sleep timeout leaves paused set and the play counter as it was when
\* the decoder is back in Idle, and no automatic play follows however long
\* the input is left alone; a release after the sleep timeout clears paused
\* and sets the play counter to 0.
C38_PausePersists ==
  [][/\ (Ran("L1") /\ player = "play") =>
          IF gest'[3] < sleepTimeOut
          THEN paused' /\ playCount' = playCount /\ player' = "pause" /\ plays' = <<>>
          ELSE ~paused' /\ playCount' = 0
     /\ (AtRest /\ paused)' =>
          \A d \in {0, sleepTimeOut + 1, playTime + 1} : StaysSilent(d)']_vars

\* The command L1 has paused a busy player, with autoplay enabled, and the
\* input was released before the sleep timeout: paused is still set.
C38_Witness ==
  /\ AtRest /\ cmds = <<"L1">> /\ gest = <<"L", 1, 0>> /\ paused /\ player = "pause"
  /\ mode # Book /\ intArray[interval + 1] # 0 /\ timer3 < playTime

\* C39: no blocking wait is a trap: a pass of loop() fails to return only
\* when the player was sent an index it does not accept.
C39_NoTrap ==
  [][(pc # "hung" /\ pc' = "hung") =>
       (plays' # <<>> /\ ~Addressable(plays'[Len(plays')]))]_vars

=============================================================================
